---------------------------- MODULE Spec2Model ----------------------------
(***************************************************************************)
(* Model of the AES256GCM encryption driver (src/unnamed/part_000).        *)
(*                                                                         *)
(* Text is a sequence of character codes (ASCII), binary data a sequence   *)
(* of bytes 0..255.  The primitives of node:crypto are idealised: the      *)
(* cipher is a keystream cipher that decrypts what it encrypted, and the   *)
(* GCM tag and the HMAC are collision free (an injective encoding of what  *)
(* they authenticate), so every rejection or acceptance the model shows is *)
(* one of the driver's logic and never a modelled collision.                *)
(***************************************************************************)
EXTENDS Integers, Sequences, FiniteSets, TLC

VARIABLES drivers, envelope, now, result

vars == <<drivers, envelope, now, result>>

----------------------------------------------------------------------------
(* Bounds of the model *)

\* driver instances alive at once
MaxDrivers == 1
\* driver instances alive side by side in the cross-instance runs
MaxPeers == 2
\* longest duration, in clock ticks, passed as expiresIn
MaxDuration == 1
\* last instant of the clock
MaxTime == 2
\* bytes of the random IV (randomBytes(16) at reduced width)
IvLen == 1
\* longest text the configuration may name as the driver id
MaxIdLen == 80

----------------------------------------------------------------------------
(* Characters and text *)

\* this.separator of the base driver: '.'
Dot == 46
\* byte length of the AES-GCM authentication tag
TagLen == 16
\* shortest secret the base driver accepts
MinSecretLen == 16

\* 'aes256gcm'
AlgoTag == <<97, 101, 115, 50, 53, 54, 103, 99, 109>>

HexDigits == <<48, 49, 50, 51, 52, 53, 54, 55, 56, 57, 97, 98, 99, 100, 101, 102>>

\* Buffer#toString('hex'): two lower-case hex digits per byte
ToHex(bytes) ==
  [i \in 1..(2 * Len(bytes)) |->
     LET b == bytes[(i + 1) \div 2]
     IN  IF i % 2 = 1 THEN HexDigits[(b \div 16) + 1] ELSE HexDigits[(b % 16) + 1]]

\* value of one hex digit, -1 when the character is none (both cases accepted)
Unhex(c) ==
  IF c >= 48 /\ c <= 57 THEN c - 48
  ELSE IF c >= 97 /\ c <= 102 THEN c - 87
  ELSE IF c >= 65 /\ c <= 70 THEN c - 55
  ELSE -1

\* Buffer.from(text, 'hex'): decodes pair by pair and stops at the first pair
\* that holds a character which is no hex digit; an odd last character is
\* dropped.  It never fails and never returns a falsy value.
FromHex(text) ==
  LET n   == Len(text) \div 2
      bad == {i \in 1..n : Unhex(text[2 * i - 1]) = -1 \/ Unhex(text[2 * i]) = -1}
      m   == IF bad = {} THEN n ELSE (CHOOSE i \in bad : \A j \in bad : i <= j) - 1
  IN  [i \in 1..m |-> Unhex(text[2 * i - 1]) * 16 + Unhex(text[2 * i])]

\* String#split(separator) for a one-character separator
RECURSIVE Split(_, _)
Split(text, sep) ==
  IF \A i \in DOMAIN text : text[i] # sep
  THEN <<text>>
  ELSE LET p == CHOOSE i \in DOMAIN text :
                  text[i] = sep /\ \A j \in 1..(i - 1) : text[j] # sep
       IN  <<SubSeq(text, 1, p - 1)>> \o Split(SubSeq(text, p + 1, Len(text)), sep)

\* Array#join(separator)
RECURSIVE Join(_, _)
Join(parts, sep) ==
  IF Len(parts) = 0 THEN <<>>
  ELSE IF Len(parts) = 1 THEN parts[1]
  ELSE parts[1] \o <<sep>> \o Join(Tail(parts), sep)

\* the k-th element of a destructured array: undefined (here the empty text,
\* falsy like undefined) when the array is shorter
Field(parts, k) == IF k <= Len(parts) THEN parts[k] ELSE <<>>

\* character c with bit k (0..7) inverted
FlipBit(c, k) ==
  LET w == 2 ^ k IN IF (c \div w) % 2 = 1 THEN c - w ELSE c + w

----------------------------------------------------------------------------
(* Values a caller passes *)

\* a JavaScript value that may or may not be a string
Str(chars) == [isString |-> TRUE, chars |-> chars]
NotAString == [isString |-> FALSE, chars |-> <<>>]

\* an optional purpose argument
Purpose(chars) == [given |-> TRUE, chars |-> chars]
NoPurpose == [given |-> FALSE, chars |-> <<>>]

\* an optional expiresIn argument, a duration in clock ticks
ExpiresIn(d) == [given |-> TRUE, d |-> d]
NoExpiry == [given |-> FALSE, d |-> 0]

\* payload values: a type tag, a scalar and the items of a container
Scalar(t, n) == [t |-> t, n |-> n, items |-> <<>>]
Container(t, items) == [t |-> t, n |-> 0, items |-> items]
Null == Scalar("null", 0)

----------------------------------------------------------------------------
(* Base driver: secret validation, key derivation, join *)

\* the secret must be a string of a minimum safe length
ValidSecret(secret) == secret.given /\ secret.len >= MinSecretLen

\* the derived key, a digest of the secret (one byte wide here)
DeriveKey(secret) == (17 * secret.seed + secret.len) % 256

\* computeReturns: the values joined by the separator
ComputeReturns(values) == Join(values, Dot)

----------------------------------------------------------------------------
(* Hmac *)

\* the i-th character of the base64url alphabet
Base64UrlChar(i) ==
  IF i < 26 THEN 65 + i
  ELSE IF i < 52 THEN 97 + (i - 26)
  ELSE IF i < 62 THEN 48 + (i - 52)
  ELSE IF i = 62 THEN 45 ELSE 95

\* Hmac#generate: keyed digest of a text in separator-free characters;
\* collision free: one key character, then the text with '.' as '_'
HmacGenerate(key, text) ==
  <<Base64UrlChar(key % 64)>> \o [i \in 1..Len(text) |-> IF text[i] = Dot THEN 95 ELSE text[i]]

\* Hmac#compare: recomputes the digest and compares it with the candidate
HmacCompare(key, text, candidate) == HmacGenerate(key, text) = candidate

----------------------------------------------------------------------------
(* node:crypto, AES-256-GCM *)

\* Buffer.from(text): UTF-8 bytes of a text (code points below 2048)
Utf8Char(c) == IF c < 128 THEN <<c>> ELSE <<192 + (c \div 64), 128 + (c % 64)>>

RECURSIVE Utf8(_)
Utf8(chars) == IF chars = <<>> THEN <<>> ELSE Utf8Char(Head(chars)) \o Utf8(Tail(chars))

RECURSIVE SumBytes(_)
SumBytes(bytes) == IF bytes = <<>> THEN 0 ELSE Head(bytes) + SumBytes(Tail(bytes))

\* the i-th keystream byte under a key and an IV
KeyStream(key, iv, i) == (key * 31 + SumBytes(iv) * 7 + i * 13) % 256

\* cipher.update + cipher.final
GcmEncrypt(key, iv, plain) ==
  [i \in 1..Len(plain) |-> (plain[i] + KeyStream(key, iv, i)) % 256]

\* decipher.update + decipher.final, once the tag has been accepted
GcmDecrypt(key, iv, cipher) ==
  [i \in 1..Len(cipher) |-> (cipher[i] + 256 - KeyStream(key, iv, i)) % 256]

\* cipher.getAuthTag: TagLen bytes authenticating key, IV, AAD and ciphertext
GcmTag(key, iv, aad, cipher) ==
  LET all == <<key, Len(iv)>> \o iv \o <<Len(aad)>> \o aad \o <<Len(cipher)>> \o cipher
  IN  [i \in 1..TagLen |-> IF i <= Len(all) THEN all[i] ELSE 0]

\* tag lengths decipher.setAuthTag accepts for GCM when createDecipheriv is
\* given no authTagLength (as here); a shorter tag is compared with the
\* leading bytes of the computed one
ValidTagLengths == {4, 8, 12, 13, 14, 15, 16}

\* the AAD a purpose argument sets: none when the purpose is falsy
Aad(purpose) ==
  IF purpose.given /\ purpose.chars # <<>> THEN Utf8(purpose.chars) ELSE <<>>

----------------------------------------------------------------------------
(* MessageBuilder: the payload codec *)

TypeCode(t) ==
  CASE t = "string" -> 1 [] t = "number" -> 2 [] t = "boolean" -> 3
    [] t = "null" -> 4 [] t = "date" -> 5 [] t = "sequence" -> 6
    [] t = "mapping" -> 7

TypeName(code) ==
  CASE code = 1 -> "string" [] code = 2 -> "number" [] code = 3 -> "boolean"
    [] code = 4 -> "null" [] code = 5 -> "date" [] code = 6 -> "sequence"
    [] code = 7 -> "mapping"

\* the bytes of a typed value, containers item by item
RECURSIVE Serialize(_)
RECURSIVE SerializeAll(_)
SerializeAll(items) ==
  IF items = <<>> THEN <<>> ELSE Serialize(Head(items)) \o SerializeAll(Tail(items))

Serialize(v) ==
  IF v.t \in {"sequence", "mapping"}
  THEN <<TypeCode(v.t), Len(v.items)>> \o SerializeAll(v.items)
  ELSE <<TypeCode(v.t), v.n>>

ParseFailed == [ok |-> FALSE, val |-> Null, rest |-> <<>>]
ItemsFailed == [ok |-> FALSE, items |-> <<>>, rest |-> <<>>]

\* reads one typed value off the front of the bytes
RECURSIVE ParseValue(_)
RECURSIVE ParseItems(_, _)
ParseItems(bytes, k) ==
  IF k = 0 THEN [ok |-> TRUE, items |-> <<>>, rest |-> bytes]
  ELSE LET first == ParseValue(bytes)
       IN  IF ~first.ok THEN ItemsFailed
           ELSE LET more == ParseItems(first.rest, k - 1)
                IN  IF ~more.ok THEN ItemsFailed
                    ELSE [ok |-> TRUE, items |-> <<first.val>> \o more.items,
                          rest |-> more.rest]

ParseValue(bytes) ==
  IF Len(bytes) < 2 \/ bytes[1] \notin 1..7 THEN ParseFailed
  ELSE LET code == bytes[1]
           rest == SubSeq(bytes, 3, Len(bytes))
       IN  IF code \in {6, 7}
           THEN LET got == ParseItems(rest, bytes[2])
                    keysOk == code = 6 \/
                              (bytes[2] % 2 = 0 /\
                               \A i \in 1..Len(got.items) :
                                  i % 2 = 1 => got.items[i].t = "string")
                IN  IF got.ok /\ keysOk
                    THEN [ok |-> TRUE, val |-> Container(TypeName(code), got.items),
                          rest |-> got.rest]
                    ELSE ParseFailed
           ELSE IF (code = 4 /\ bytes[2] # 0) \/ (code = 3 /\ bytes[2] > 1)
                THEN ParseFailed
                ELSE [ok |-> TRUE, val |-> Scalar(TypeName(code), bytes[2]), rest |-> rest]

\* MessageBuilder#build: the value behind its absolute expiry, if one is asked
Build(payload, expiresIn, at) ==
  (IF expiresIn.given THEN <<1, at + expiresIn.d>> ELSE <<0>>) \o Serialize(payload)

\* MessageBuilder#verify: the value, or Rejected when the bytes are malformed
\* or the embedded expiry is at or before the current time
Verify(bytes, at) ==
  IF bytes = <<>> \/ bytes[1] \notin {0, 1} THEN [ok |-> FALSE, val |-> Null]
  ELSE IF bytes[1] = 1 /\ (Len(bytes) < 2 \/ bytes[2] <= at) THEN [ok |-> FALSE, val |-> Null]
  ELSE LET body == IF bytes[1] = 1 THEN SubSeq(bytes, 3, Len(bytes)) ELSE Tail(bytes)
           got  == ParseValue(body)
       IN  IF got.ok /\ got.rest = <<>> THEN [ok |-> TRUE, val |-> got.val]
           ELSE [ok |-> FALSE, val |-> Null]

----------------------------------------------------------------------------
(* AES256GCM: constructor, encrypt, decrypt *)

\* constructor(config): the base constructor validates the secret, then the
\* id must be of type string
Constructor(config) ==
  IF ~ValidSecret(config.secret) THEN "E_INVALID_SECRET"
  ELSE IF ~config.id.isString THEN "E_MISSING_ENCRYPTER_ID"
  ELSE "ok"

\* the instance a successful construction leaves
NewDriver(config) == [id |-> config.id.chars, key |-> DeriveKey(config.secret)]

\* encrypt(payload, expiresIn, purpose) with the IV randomBytes returned:
\* the six values the envelope is joined from
EncryptParts(driver, payload, expiresIn, purpose, iv, at) ==
  LET encodedValue == Build(payload, expiresIn, at)
      encrypted    == GcmEncrypt(driver.key, iv, encodedValue)
      res          == ToHex(encrypted) \o <<Dot>> \o ToHex(iv)
      nounce       == ToHex(GcmTag(driver.key, iv, Aad(purpose), encrypted))
      hmac         == HmacGenerate(driver.key, res)
  IN  <<driver.id, AlgoTag, ToHex(encrypted), ToHex(iv), nounce, hmac>>

\* the string encrypt returns; result = hex(encrypted) + separator + hex(iv)
\* is one element of the joined array
Encrypt(driver, payload, expiresIn, purpose, iv, at) ==
  LET p == EncryptParts(driver, payload, expiresIn, purpose, iv, at)
  IN  ComputeReturns(<<p[1], p[2], p[3] \o <<Dot>> \o p[4], p[5], p[6]>>)

\* an early `return null`
Reject(steps) == [ret |-> Null, threw |-> FALSE, accepted |-> FALSE, steps |-> steps]

\* the body of the try block: create the decipher, set AAD and tag, decrypt,
\* hand the plaintext to the codec
DecipherBlock(driver, encrypted, iv, nounce, purpose, at) ==
  IF Len(iv) = 0
  THEN [ret |-> Null, threw |-> TRUE, accepted |-> FALSE, steps |-> <<"createDecipheriv">>]
  ELSE IF Len(nounce) \notin ValidTagLengths
  THEN [ret |-> Null, threw |-> TRUE, accepted |-> FALSE,
        steps |-> <<"createDecipheriv", "setAuthTag">>]
  ELSE IF nounce # SubSeq(GcmTag(driver.key, iv, Aad(purpose), encrypted), 1, Len(nounce))
  THEN [ret |-> Null, threw |-> TRUE, accepted |-> FALSE,
        steps |-> <<"createDecipheriv", "setAuthTag", "final">>]
  ELSE LET got == Verify(GcmDecrypt(driver.key, iv, encrypted), at)
       IN  [ret |-> got.val, threw |-> FALSE, accepted |-> got.ok,
            steps |-> <<"createDecipheriv", "setAuthTag", "final", "verify">>]

\* the try block without its catch: the exception reaches the caller
NoCatch(r) == r

\* catch { return null }
CatchAll(r) == IF r.threw THEN [r EXCEPT !.threw = FALSE, !.ret = Null] ELSE r

\* the decipher run first and the HMAC compared afterwards
AuthenticateDecipherFirst(driver, encryptedEncoded, ivEncoded, nounceEncoded, hash, purpose, at) ==
  LET r == CatchAll(DecipherBlock(driver, FromHex(encryptedEncoded), FromHex(ivEncoded),
                                  FromHex(nounceEncoded), purpose, at))
      isValidHmac == HmacCompare(driver.key, encryptedEncoded \o <<Dot>> \o ivEncoded, hash)
  IN  IF ~isValidHmac THEN Reject(<<"hex">> \o r.steps \o <<"hmac">>)
      ELSE [r EXCEPT !.steps = <<"hex">> \o r.steps \o <<"hmac">>]

\* decrypt from the hex decoding on: the three buffers (never falsy), the
\* HMAC comparison, then the guarded decipher
Authenticate(driver, encryptedEncoded, ivEncoded, nounceEncoded, hash, purpose, at) ==
  LET encrypted == FromHex(encryptedEncoded)
      iv        == FromHex(ivEncoded)
      nounce    == FromHex(nounceEncoded)
      isValidHmac == HmacCompare(driver.key, encryptedEncoded \o <<Dot>> \o ivEncoded, hash)
  IN  IF ~isValidHmac THEN Reject(<<"hex", "hmac">>)
      ELSE LET r == CatchAll(DecipherBlock(driver, encrypted, iv, nounce, purpose, at))
           IN  [r EXCEPT !.steps = <<"hex", "hmac">> \o r.steps]

\* decrypt(value, purpose) at a time of the clock
Decrypt(driver, value, purpose, at) ==
  IF ~value.isString THEN Reject(<<"typeof">>)
  ELSE LET parts == Split(value.chars, Dot)
           id               == Field(parts, 1)
           algo             == Field(parts, 2)
           encryptedEncoded == Field(parts, 3)
           ivEncoded        == Field(parts, 4)
           nounceEncoded    == Field(parts, 5)
           hash             == Field(parts, 6)
       IN  IF id = <<>> \/ algo = <<>> \/ encryptedEncoded = <<>> \/ ivEncoded = <<>>
              \/ nounceEncoded = <<>> \/ hash = <<>>
           THEN Reject(<<"typeof", "fields">>)
           ELSE IF algo # AlgoTag THEN Reject(<<"typeof", "fields", "algo">>)
           ELSE IF id # driver.id THEN Reject(<<"typeof", "fields", "algo", "id">>)
           ELSE LET r == Authenticate(driver, encryptedEncoded, ivEncoded,
                                      nounceEncoded, hash, purpose, at)
                IN  [r EXCEPT !.steps = <<"typeof", "fields", "algo", "id">> \o r.steps]

----------------------------------------------------------------------------
(* What the callers pass *)

PayloadPool ==
  { Scalar("string", 120), Scalar("number", 7), Scalar("boolean", 0), Null,
    Scalar("date", 3),
    Container("sequence", <<Scalar("number", 1), Scalar("boolean", 1)>>),
    Container("mapping", <<Scalar("string", 107),
                           Container("sequence", <<Scalar("date", 3)>>)>>) }

\* no purpose, '', 'p', 'q'
PurposePool == {NoPurpose, Purpose(<<>>), Purpose(<<112>>), Purpose(<<113>>)}

\* expiresIn: absent, or a duration of 1..MaxDuration ticks
ExpiryPool == {NoExpiry} \cup {ExpiresIn(d) : d \in 1..MaxDuration}

\* what randomBytes may return
IvPool == [1..IvLen -> {10, 171}]

\* not a string, '', 'a', 'a.b'
IdPool == {NotAString, Str(<<>>), Str(<<97>>), Str(<<97, 46, 98>>)}

ShortSecret == [given |-> TRUE, len |-> 4, seed |-> 1]
SecretOne == [given |-> TRUE, len |-> 22, seed |-> 1]
SecretTwo == [given |-> TRUE, len |-> 32, seed |-> 2]
SecretPool == {[given |-> FALSE, len |-> 0, seed |-> 0], ShortSecret, SecretOne, SecretTwo}

\* not a string, '', 'zz', 'a.aes256gcm.00', 'a.aes256gcX.00.0a.00.n00',
\* 'b.aes256gcm.00.0a.00.n00'
MalformedPool ==
  { NotAString, Str(<<>>), Str(<<122, 122>>),
    Str(<<97, 46>> \o AlgoTag \o <<46, 48, 48>>),
    Str(<<97, 46, 97, 101, 115, 50, 53, 54, 103, 99, 88, 46, 48, 48, 46, 48, 97,
          46, 48, 48, 46, 110, 48, 48>>),
    Str(<<98, 46>> \o AlgoTag \o <<46, 48, 48, 46, 48, 97, 46, 48, 48, 46, 110, 48, 48>>) }

NoEnvelope ==
  [made |-> FALSE, text |-> <<>>, parts |-> <<>>, driver |-> [id |-> <<>>, key |-> 0],
   payload |-> Null, expiresIn |-> NoExpiry, purpose |-> NoPurpose, at |-> 0]

Idle == [op |-> "none"]

----------------------------------------------------------------------------
(* The state machine of a sequential caller: the instances alive, the      *)
(* envelope last produced, the clock, and the call whose outcome the       *)
(* caller holds                                                             *)

Init ==
  /\ drivers = {}
  /\ envelope = NoEnvelope
  /\ now = 0
  /\ result = Idle

\* new AES256GCM(config), with room for `limit` instances
Construct(config, limit) ==
  LET outcome == Constructor(config)
  IN  /\ result = Idle
      /\ outcome = "ok" => Cardinality(drivers \cup {NewDriver(config)}) <= limit
      /\ drivers' = IF outcome = "ok" THEN drivers \cup {NewDriver(config)} ELSE drivers
      /\ result' = [op |-> "construct", config |-> config, outcome |-> outcome]
      /\ UNCHANGED <<envelope, now>>

\* driver.encrypt(payload, expiresIn, purpose)
DoEncrypt(driver, payload, expiresIn, purpose, iv) ==
  LET text == Encrypt(driver, payload, expiresIn, purpose, iv, now)
  IN  /\ result = Idle
      /\ envelope' = [made |-> TRUE, text |-> text,
                      parts |-> EncryptParts(driver, payload, expiresIn, purpose, iv, now),
                      driver |-> driver, payload |-> payload, expiresIn |-> expiresIn,
                      purpose |-> purpose, at |-> now]
      /\ result' = [op |-> "encrypt", driver |-> driver, text |-> text]
      /\ UNCHANGED <<drivers, now>>

\* driver.decrypt(value, purpose); kind and field say how value was made
DoDecrypt(driver, value, purpose, kind, field) ==
  /\ result = Idle
  /\ result' = [op |-> "decrypt", kind |-> kind, field |-> field, driver |-> driver,
                value |-> value, purpose |-> purpose, at |-> now,
                run |-> Decrypt(driver, value, purpose, now)]
  /\ UNCHANGED <<drivers, envelope, now>>

\* the caller has looked at the outcome
Return ==
  /\ result # Idle
  /\ result' = Idle
  /\ UNCHANGED <<drivers, envelope, now>>

\* time passes
Tick ==
  /\ result = Idle
  /\ now < MaxTime
  /\ now' = now + 1
  /\ UNCHANGED <<drivers, envelope, result>>

\* the envelope with bit `bit` of character `pos` of part `field` inverted
Flipped(field, pos, bit) ==
  Str(Join([envelope.parts EXCEPT ![field][pos] = FlipBit(@, bit)], Dot))

\* the envelope with one more separator-delimited field behind it
Extended(extra) == Str(envelope.text \o <<Dot>> \o extra)

\* the envelope with part `field` left empty
Emptied(field) == Str(Join([envelope.parts EXCEPT ![field] = <<>>], Dot))

DecryptEnvelope ==
  /\ envelope.made
  /\ \E driver \in drivers, purpose \in PurposePool :
       DoDecrypt(driver, Str(envelope.text), purpose, "envelope", 0)

----------------------------------------------------------------------------
(* Spec: one instance, every configuration, payload, purpose and expiry *)

ConstructAny ==
  \E id \in IdPool, secret \in SecretPool :
    Construct([id |-> id, secret |-> secret], MaxDrivers)

EncryptAny ==
  \E driver \in drivers, payload \in PayloadPool, expiresIn \in ExpiryPool,
     purpose \in PurposePool \ {Purpose(<<113>>)}, iv \in IvPool :
       DoEncrypt(driver, payload, expiresIn, purpose, iv)

Next ==
  \/ ConstructAny
  \/ EncryptAny
  \/ DecryptEnvelope
  \/ Tick
  \/ Return

Spec == Init /\ [][Next]_vars

----------------------------------------------------------------------------
(* SpecCross: instances side by side, one of which may be configured with  *)
(* a text that another instance produced as its id                         *)

ConstructPeer ==
  \E id \in IdPool, secret \in {SecretOne, SecretTwo} :
    Construct([id |-> id, secret |-> secret], MaxPeers)

ConstructNamedByEnvelope ==
  /\ envelope.made
  /\ Len(envelope.text) <= MaxIdLen
  /\ \E secret \in {SecretOne, SecretTwo} :
       Construct([id |-> Str(envelope.text), secret |-> secret], MaxPeers)

EncryptPlain ==
  \E driver \in drivers, payload \in {Scalar("number", 7), Scalar("string", 120)},
     iv \in IvPool :
       DoEncrypt(driver, payload, NoExpiry, NoPurpose, iv)

DecryptPlain ==
  /\ envelope.made
  /\ \E driver \in drivers : DoDecrypt(driver, Str(envelope.text), NoPurpose, "envelope", 0)

NextCross ==
  \/ ConstructPeer
  \/ ConstructNamedByEnvelope
  \/ EncryptPlain
  \/ DecryptPlain
  \/ Return

SpecCross == Init /\ [][NextCross]_vars

----------------------------------------------------------------------------
(* SpecTamper: one instance and what an adversary can hand to decrypt *)

ConstructOne ==
  \E secret \in {ShortSecret, SecretOne} :
    Construct([id |-> Str(<<97>>), secret |-> secret], MaxDrivers)

EncryptFew ==
  \E driver \in drivers, expiresIn \in ExpiryPool,
     purpose \in {NoPurpose, Purpose(<<112>>)}, iv \in IvPool :
       DoEncrypt(driver, Scalar("number", 7), expiresIn, purpose, iv)

DecryptFlipped ==
  /\ envelope.made
  /\ \E driver \in drivers, field \in 3..6 :
       \E pos \in 1..Len(envelope.parts[field]), bit \in 0..7 :
         DoDecrypt(driver, Flipped(field, pos, bit), envelope.purpose, "flipped", field)

DecryptExtended ==
  /\ envelope.made
  /\ \E driver \in drivers, extra \in {<<>>, <<48, 48>>} :
       DoDecrypt(driver, Extended(extra), envelope.purpose, "extended", 0)

DecryptEmptied ==
  /\ envelope.made
  /\ \E driver \in drivers, field \in 1..6 :
       DoDecrypt(driver, Emptied(field), envelope.purpose, "emptied", field)

DecryptMalformed ==
  \E driver \in drivers, value \in MalformedPool :
    DoDecrypt(driver, value, NoPurpose, "malformed", 0)

NextTamper ==
  \/ ConstructOne
  \/ EncryptFew
  \/ DecryptEnvelope
  \/ DecryptFlipped
  \/ DecryptExtended
  \/ DecryptEmptied
  \/ DecryptMalformed
  \/ Tick
  \/ Return

SpecTamper == Init /\ [][NextTamper]_vars

----------------------------------------------------------------------------
(* Properties *)

\* the text splits on the separator into exactly six non-empty fields
SixNonEmpty(text) ==
  LET p == Split(text, Dot) IN Len(p) = 6 /\ \A i \in 1..6 : p[i] # <<>>

\* position of a step in a run, 0 when the run never took it
StepAt(steps, name) ==
  IF \E i \in DOMAIN steps : steps[i] = name
  THEN CHOOSE i \in DOMAIN steps : steps[i] = name
  ELSE 0

\* the caller holds the outcome of decrypting the unaltered envelope with
\* the instance that produced it
OwnEnvelopeDecrypted ==
  /\ result.op = "decrypt"
  /\ result.kind = "envelope"
  /\ result.driver = envelope.driver

\* C1: decrypting, with no purpose, what an instance encrypted with no expiry
\* and no purpose returns the payload, whatever the instance and the payload.
C1_RoundTrip ==
  (OwnEnvelopeDecrypted /\ ~envelope.expiresIn.given
     /\ envelope.purpose = NoPurpose /\ result.purpose = NoPurpose)
  => (result.run.ret = envelope.payload /\ ~result.run.threw)

\* C2: decrypt returns null for an envelope in which one bit of the
\* ciphertext, IV, auth-tag or HMAC field has been inverted.
C2_TamperDetected ==
  (result.op = "decrypt" /\ result.kind = "flipped") => result.run.ret = Null

\* C3: an envelope encrypted for purpose a decrypts to null under every other
\* purpose b and under no purpose at all.
C3_PurposeBinding ==
  (result.op = "decrypt" /\ result.kind = "envelope" /\ envelope.purpose.given
     /\ (~result.purpose.given \/ result.purpose.chars # envelope.purpose.chars))
  => result.run.ret = Null

\* what the input of a decrypt call is, judged on the input alone: one of the
\* malformed or hostile shapes
Hostile(r) ==
  LET p   == Split(r.value.chars, Dot)
      key == r.driver.key
      ct  == FromHex(p[3])
      iv  == FromHex(p[4])
      tag == FromHex(p[5])
  IN  \/ ~r.value.isString
      \/ r.value.chars = <<>>
      \/ Len(p) < 6
      \/ p[2] # AlgoTag
      \/ ~HmacCompare(key, p[3] \o <<Dot>> \o p[4], p[6])
      \/ 2 * Len(iv) # Len(p[4])
      \/ Len(tag) \notin ValidTagLengths
      \/ tag # SubSeq(GcmTag(key, iv, Aad(r.purpose), ct), 1, Len(tag))
      \/ ~Verify(GcmDecrypt(key, iv, ct), r.at).ok

\* C4: decrypt never throws, and a malformed or hostile input (no string, too
\* few fields, unknown algorithm, bad HMAC, bad tag, malformed IV, invalid or
\* expired payload) ends in the one outcome null.
C4_NeverThrows ==
  result.op = "decrypt"
  => /\ ~result.run.threw
     /\ Hostile(result) => (result.run.ret = Null /\ ~result.run.accepted)

\* a decipher failure was caught: the tag of the envelope was altered, the
\* decipher ran up to final and the caller got null
C4_Witness ==
  /\ result.op = "decrypt" /\ result.kind = "flipped" /\ result.field = 5
  /\ StepAt(result.run.steps, "final") > 0
  /\ StepAt(result.run.steps, "verify") = 0
  /\ result.run.ret = Null /\ ~result.run.threw

\* C5: an envelope one instance produced is rejected by every instance
\* configured with a different id.
C5_CrossInstance ==
  (result.op = "decrypt" /\ result.kind = "envelope"
     /\ result.driver.id # envelope.driver.id)
  => result.run.ret = Null

\* C6: an envelope made at t with expiresIn d decrypts to its payload at every
\* time before t + d and to null at every time from t + d on.
C6_Expiry ==
  (OwnEnvelopeDecrypted /\ envelope.expiresIn.given
     /\ envelope.purpose = NoPurpose /\ result.purpose = NoPurpose)
  => /\ result.at < envelope.at + envelope.expiresIn.d => result.run.ret = envelope.payload
     /\ result.at >= envelope.at + envelope.expiresIn.d => result.run.ret = Null

\* C7: what encrypt returns splits on the separator into exactly the six
\* non-empty fields id, 'aes256gcm', hex(ciphertext), hex(iv), hex(tag), hmac,
\* none of which holds the separator.
C7_WireFormat ==
  result.op = "encrypt"
  => /\ SixNonEmpty(result.text)
     /\ Split(result.text, Dot) = envelope.parts
     /\ envelope.parts[1] = result.driver.id
     /\ envelope.parts[2] = AlgoTag
     /\ \A i \in 1..6 : \A j \in DOMAIN envelope.parts[i] : envelope.parts[i][j] # Dot

\* C8: decrypt returns null for every string that does not split into exactly
\* six non-empty fields, strings of more than six fields included.
C8_SoleShape ==
  (result.op = "decrypt" /\ result.value.isString /\ ~SixNonEmpty(result.value.chars))
  => result.run.ret = Null

\* C9: construction fails whenever the id is no non-empty string, so every
\* instance has a non-empty id.
C9_IdRequired ==
  /\ (result.op = "construct"
        /\ (~result.config.id.isString \/ result.config.id.chars = <<>>))
     => result.outcome # "ok"
  /\ \A d \in drivers : d.id # <<>>

\* the first four checks of decrypt, judged on the input alone
PassesFraming(r) ==
  LET p == Split(r.value.chars, Dot)
  IN  /\ r.value.isString
      /\ \A k \in 1..6 : Field(p, k) # <<>>
      /\ p[2] = AlgoTag
      /\ p[1] = r.driver.id

\* the HMAC the input carries is the one of its ciphertext and IV fields
HmacHolds(r) ==
  LET p == Split(r.value.chars, Dot)
  IN  HmacCompare(r.driver.key, p[3] \o <<Dot>> \o p[4], p[6])

\* C10: a decipher is created only after the type and field check, the
\* algorithm check, the id check and the HMAC comparison, in that order, have
\* passed; a failed HMAC comparison returns null with no decipher created.
C10_HmacBeforeDecipher ==
  result.op = "decrypt"
  => LET s == result.run.steps
         created == StepAt(s, "createDecipheriv")
     IN  /\ created > 0
            => /\ PassesFraming(result) /\ HmacHolds(result)
               /\ 0 < StepAt(s, "typeof") /\ StepAt(s, "typeof") < StepAt(s, "fields")
               /\ StepAt(s, "fields") < StepAt(s, "algo")
               /\ StepAt(s, "algo") < StepAt(s, "id")
               /\ StepAt(s, "id") < StepAt(s, "hmac")
               /\ StepAt(s, "hmac") < created
         /\ (PassesFraming(result) /\ ~HmacHolds(result))
            => (created = 0 /\ result.run.ret = Null)

\* the HMAC field of the envelope was altered: the run ended at the HMAC
\* comparison and the caller got null
C10_Witness ==
  /\ result.op = "decrypt" /\ result.kind = "flipped" /\ result.field = 6
  /\ PassesFraming(result) /\ ~HmacHolds(result)
  /\ result.run.steps[Len(result.run.steps)] = "hmac"
  /\ result.run.ret = Null

=============================================================================
